---- MODULE Spec2Model ----
(***************************************************************************)
(* Extractor_MCMC (spectractor/extractor.py): the Metropolis random walk   *)
(* of one chain (mcmc) and the orchestration of the chains over a process  *)
(* pool (run_mcmc), with the row log the chains persist.                    *)
(*                                                                         *)
(* The classes Chain and Chains come from the module mcmc, which is not    *)
(* among the source files; what the walk needs of them (the Chain          *)
(* constructor, make_dictline, newrow, append2file, check_completness) is  *)
(* modelled from the specification and marked so in the map.               *)
(***************************************************************************)
EXTENDS Integers, Sequences, FiniteSets, TLC

\* ------------------------------------------------------------------ bounds
\* nchains: the number of chains (and of pool processes).
NChains == 2
\* The largest configured nsteps (total steps per chain).
MaxSteps == 2
\* The number of run_mcmc calls a behaviour makes.
MaxRuns == 2
\* Extractor_MCMC's default nchains: a fit of a single chain.
DefaultChains == 1

ChainIds == 0 .. (NChains - 1)

\* ------------------------------------------------------- parameter vectors
\* A vector is <<A1, p>>: the amplitude (component 0 of self.p) and one
\* other parameter, on a small grid.  Extractor.bounds gives A1 the bounds
\* [0, inf) and the other parameters finite ones; here p has [0, 1].  The
\* grid holds three feasible vectors and one outside the bounds of p.
AmpGrid == {0, 1, 2}
Grid == {<<a, 1>> : a \in AmpGrid} \cup {<<1, 2>>}

ParLow == 0
ParHigh == 1
AmpLow == 0

\* Extractor_MCMC.prior: 1.0 inside the bounds, 0. outside (as 1 / 0).
prior(vec) ==
    IF vec[1] < AmpLow \/ vec[2] < ParLow \/ vec[2] > ParHigh THEN 0 ELSE 1

InBounds == {v \in Grid : prior(v) = 1}

\* The caller's starting vector (Chain.start_vec of a chain with no row).
FirstVec == <<1, 1>>

\* ------------------------------------------------------------ cost values
\* chisq values are floats: small non-negative numbers, the sentinel 1e20
\* given to an infeasible candidate, +inf and NaN.
BigChisq == 100000
PosInf == 1000000
NaN == -1
\* exp(x) is 0.0 in double precision for x below about -745: from a
\* difference of 1491 on, exp(-0.5 * d) underflows to exactly 0.
ExpUnderflow == 1491

IsFiniteCost(c) == c # NaN /\ c # PosInf

\* ceil(1000 * exp(-0.5 * d)) for 1 <= d < ExpUnderflow: a draw of r/1000 is
\* below exp(-0.5 * d) iff r < ExpMilli(d).
ExpMilli(d) ==
    CASE d = 1 -> 607
      [] d = 2 -> 368
      [] d = 3 -> 224
      [] d = 4 -> 136
      [] d = 5 -> 83
      [] d = 6 -> 50
      [] d = 7 -> 31
      [] d = 8 -> 19
      [] OTHER -> 1

\* The draws of np.random.uniform(0, 1), in thousandths: 0 <= r < 1.
RDraws == {0, 500, 999}

\* np.exp(-0.5 * (chisq2 - chisq1)) > r, in floating point.
AcceptSwapped(chisq1, chisq2, r) ==
    IF chisq1 = NaN \/ chisq2 = NaN THEN FALSE
    ELSE IF chisq1 = PosInf /\ chisq2 = PosInf THEN FALSE
    ELSE IF chisq1 = PosInf THEN FALSE
    ELSE IF chisq2 = PosInf THEN TRUE
    ELSE LET d == chisq1 - chisq2 IN
         IF d >= ExpUnderflow THEN FALSE
         ELSE IF d <= 0 THEN TRUE
         ELSE r < ExpMilli(d)

\* not (np.exp(-0.5 * (chisq2 - chisq1)) <= r): True on a NaN.
AcceptNotBelow(chisq1, chisq2, r) ==
    IF chisq1 = NaN \/ chisq2 = NaN THEN TRUE
    ELSE IF chisq1 = PosInf /\ chisq2 = PosInf THEN TRUE
    ELSE IF chisq2 = PosInf THEN FALSE
    ELSE IF chisq1 = PosInf THEN TRUE
    ELSE LET d == chisq2 - chisq1 IN
         IF d >= ExpUnderflow THEN FALSE
         ELSE IF d <= 0 THEN TRUE
         ELSE r < ExpMilli(d)

AcceptTest(chisq1, chisq2, r) ==
    IF chisq1 = NaN \/ chisq2 = NaN THEN FALSE          \* nan > r is False
    ELSE IF chisq1 = PosInf /\ chisq2 = PosInf THEN FALSE \* inf - inf = nan
    ELSE IF chisq2 = PosInf THEN FALSE                   \* exp(-inf) = 0
    ELSE IF chisq1 = PosInf THEN TRUE                    \* exp(+inf) = inf
    ELSE LET d == chisq2 - chisq1 IN
         IF d >= ExpUnderflow THEN FALSE                 \* 0.0 > r is False
         ELSE IF d <= 0 THEN TRUE                        \* exp >= 1 > r
         ELSE r < ExpMilli(d)

\* Extractor.chisq is the cost against the observed spectrum: a function of
\* the vector.  Two cost functions: one finite everywhere, one that is +inf
\* and NaN at two feasible points.
ChisqFinite(vec) ==
    LET da == IF vec[1] >= 2 THEN vec[1] - 2 ELSE 2 - vec[1]
        dp == IF vec[2] >= 1 THEN vec[2] - 1 ELSE 1 - vec[2]
    IN  da + dp

CostFns == {"finite", "nonfinite"}

chisqOf(fn, vec) ==
    IF fn = "nonfinite" /\ vec = <<2, 1>> THEN PosInf
    ELSE IF fn = "nonfinite" /\ vec = <<1, 1>> THEN NaN
    ELSE ChisqFinite(vec)

\* np.max(self.simulation(lambdas, *vec)): the model is A1 times a profile
\* of the other parameters, so its maximum is A1 * Profile(p).
\* MaxData is np.max(self.spectrum.data).
MaxData == 2
Profile(p) == IF p = 1 THEN 1 ELSE 2
MaxSim(vec) == vec[1] * Profile(vec[2])

\* mcmc, line 269: vec1[0] *= max(data) / max(sim) when max(sim) > 0.
Rescale(vec) ==
    IF MaxSim(vec) > 0
    THEN <<(vec[1] * MaxData) \div MaxSim(vec), vec[2]>>
    ELSE vec

\* exploration_time: the last step index that leaves the proposal alone.
ExplorationTime == 0

\* mcmc, line 314: if i > self.exploration_time.
AdaptsFrom(i) == i >= ExplorationTime

Adapts(i) == i > ExplorationTime

\* ------------------------------------------------------------------ state
VARIABLES
    costFn,   \* the cost function of this fit (the observed spectrum)
    cov,      \* the seed proposal covariance (covfile): narrow or wide
    nchains,  \* self.nchains
    nsteps,   \* self.nsteps of the current Extractor_MCMC object
    file,     \* the row log on disk: for each chain id, its rows in order
    chains,   \* self.chains.chains: the Chain objects of the current object
    tasks,    \* the pool's tasks, one per mapped Chain object
    orch,     \* the caller's position in run_mcmc and the call's outcome
    last,     \* the latest turn of a worker's loop: its operands and draw
    stream    \* what the generator of each seed has given, draw by draw

vars == <<costFn, cov, nchains, nsteps, file, chains, tasks, orch, last,
          stream>>

NoStep == [set |-> FALSE, t |-> 0, i |-> 0, chisq1 |-> 0, chisq2 |-> 0,
           vec1 |-> FirstVec, vec2 |-> FirstVec, r |-> 0]

\* Chain.__init__ of a chain id against the log: a chain without rows has
\* start_key -1 and starts at index 0 from the caller's vector; a chain with
\* k rows has the key and vector of its last row and the cursor k - 1.
Chain(f, i, n) ==
    LET rows == f[i] IN
    IF rows = <<>>
    THEN [nchain |-> i, nsteps |-> n, start_key |-> -1, start_index |-> 0,
          start_vec |-> FirstVec]
    ELSE [nchain |-> i, nsteps |-> n, start_key |-> rows[Len(rows)].key,
          start_index |-> Len(rows) - 1, start_vec |-> rows[Len(rows)].vec]

\* Chains.check_completness: every chain has its nsteps rows.
check_completness(f, nch, n) == \A c \in 0 .. (nch - 1) : Len(f[c]) >= n

\* The normal deviates of one draw, as far as the covariance tells them
\* apart: none under a narrow covariance, the grid point they lead to under
\* a wide one.
Deviates(cv) == IF cv = "wide" THEN Grid ELSE {FirstVec}

\* Chain.draw_vector: a draw of the multivariate normal around vec, from the
\* deviates z.  Under a wide covariance every vector of the grid can come
\* out; under a narrow one the draw stays in the grid cell of vec.
draw_vector(cv, vec, z) == IF cv = "wide" THEN z ELSE vec


\* Chain.make_dictline and Chain.newrow: the row of step i under its key.
make_dictline(ch, i, chisq, vec) ==
    [chain |-> ch.nchain, index |-> i, key |-> i + ch.nchain * ch.nsteps,
     chisq |-> chisq, vec |-> vec]

\* Chain.append2file: the rows the worker holds are added to the log, after
\* the rows the chain has there.
append2file(f, ch, rows) == [f EXCEPT ![ch.nchain] = @ \o rows]

\* A task of pool.map_async: the pickled Chain object and the worker's
\* position in mcmc.  logk is the number of rows the chain had in the log
\* when the worker began; ncov counts the calls of update_proposal_cov and
\* covvec is the vector the latest call was given.
QueuedTask(ch) ==
    [chain |-> ch, pc |-> "queued", i |-> 0, first |-> 0, logk |-> 0,
     vec1 |-> ch.start_vec, chisq1 |-> 0, rows |-> <<>>, ncov |-> 0,
     covvec |-> <<>>, seed |-> -1]

\* np.random.seed(chain.nchain), line 257: the seed of a worker's generator.
SeedByCall(ch) == orch.runs

Seed(ch) == ch.nchain

\* The generator seeded with s is a fixed sequence of numbers.  A worker
\* that begins with the initial loop (a chain without rows) reads it as the
\* deviates that end that loop and then, turn by turn, the deviates of the
\* candidate and the uniform draw; a worker of a resumed chain reads it as
\* the deviates and the uniform draw of its turns.  stream[s] holds, for each
\* of the two readings, the draws seen so far: draw d of a reading is always
\* the same.
Reading(ch) == IF ch.start_key = -1 THEN "new" ELSE "res"

Drawn(s, rd, d, zs, rs) ==
    IF d <= Len(stream[s][rd]) THEN {stream[s][rd][d]}
    ELSE [z : zs, r : rs]

Record(s, rd, d, item) ==
    IF d <= Len(stream[s][rd]) THEN stream
    ELSE [stream EXCEPT ![s][rd] = Append(@, item)]

\* The number of draws a worker has made since its seed.
DrawsMade(w) ==
    IF Reading(w.chain) = "new" THEN 1 + (w.i - w.first) ELSE w.i - w.first

\* A worker process that has ended: what it held in memory is gone.
Ended(w, how) ==
    [w EXCEPT !.pc = how, !.vec1 = w.chain.start_vec, !.chisq1 = 0,
              !.rows = <<>>, !.covvec = <<>>]

TaskIds == DOMAIN tasks
Live(t) == tasks[t].pc \in {"queued", "loop"}
Running(t) == tasks[t].pc = "loop"

InitWith(fns, covs, nch) ==
    /\ costFn \in fns
    /\ cov \in covs
    /\ nchains = nch
    /\ nsteps \in 1 .. MaxSteps
    /\ file = [c \in ChainIds |-> <<>>]
    /\ chains = <<>>
    /\ tasks = <<>>
    /\ orch = [pc |-> "idle", runs |-> 0, outcome |-> "none",
               complete |-> FALSE, interrupted |-> FALSE]
    /\ last = NoStep
    /\ stream = [s \in ChainIds |-> [new |-> <<>>, res |-> <<>>]]

\* Fits of NChains chains on a narrow proposal: the orchestration.
Init == InitWith({"finite"}, {"narrow"}, NChains)

\* Fits of one chain on a wide proposal, with both cost functions: the walk.
InitWalk == InitWith(CostFns, {"wide"}, DefaultChains)

\* ----------------------------------------------------------------- worker
\* mcmc, lines 257-274: the seed, the starting vector (drawn until its prior
\* is positive for a chain without rows, the last row's for the others, whose
\* cursor moves on by one), the rescaling of vec1[0] and the starting cost.
WorkerStart(t) ==
    /\ orch.pc \in {"waiting", "raised"}
    /\ tasks[t].pc = "queued"
    /\ \A u \in TaskIds : u < t => tasks[u].pc # "queued"
    /\ Cardinality({u \in TaskIds : Running(u)}) < nchains
    /\ LET ch == tasks[t].chain
           s == Seed(ch)
           zs == {z \in Deviates(cov) :
                     prior(draw_vector(cov, ch.start_vec, z)) = 1}
       IN
       \E d \in (IF ch.start_key = -1 THEN Drawn(s, "new", 1, zs, {0})
                 ELSE {[z |-> ch.start_vec, r |-> 0]}) :
          LET v0 == IF ch.start_key = -1
                    THEN draw_vector(cov, ch.start_vec, d.z)
                    ELSE ch.start_vec
              vec1 == Rescale(v0)
              first == IF ch.start_key = -1 THEN ch.start_index
                       ELSE ch.start_index + 1
          IN /\ tasks' = [tasks EXCEPT ![t] =
                   [@ EXCEPT !.pc = "loop", !.i = first, !.first = first,
                             !.logk = Len(file[ch.nchain]), !.seed = s,
                             !.vec1 = vec1, !.chisq1 = chisqOf(costFn, vec1)]]
             /\ stream' = IF ch.start_key = -1 THEN Record(s, "new", 1, d)
                          ELSE stream
    /\ UNCHANGED <<costFn, cov, nchains, nsteps, file, chains, orch, last>>

\* mcmc, lines 277-315: one turn of the loop.
WorkerStep(t) ==
    /\ orch.pc \in {"waiting", "raised"}
    /\ tasks[t].pc = "loop"
    /\ tasks[t].i < tasks[t].chain.nsteps
    /\ LET w == tasks[t]
           rd == Reading(w.chain)
           n == DrawsMade(w) + 1
       IN
       \E d \in Drawn(w.seed, rd, n, Deviates(cov), RDraws) :
          LET vec2 == draw_vector(cov, w.vec1, d.z)
              r == d.r
              prior2 == prior(vec2)
              chisq2 == IF prior2 > 0 THEN chisqOf(costFn, vec2) ELSE BigChisq
              acc == AcceptTest(w.chisq1, chisq2, r)
              vecN == IF acc THEN vec2 ELSE w.vec1
              chisqN == IF acc THEN chisq2 ELSE w.chisq1
              dictline == make_dictline(w.chain, w.i, chisqN, vecN)
          IN /\ tasks' = [tasks EXCEPT ![t] =
                    [@ EXCEPT !.vec1 = vecN, !.chisq1 = chisqN,
                              !.rows = Append(@, dictline),
                              !.ncov = IF Adapts(w.i) THEN @ + 1 ELSE @,
                              !.covvec = IF Adapts(w.i) THEN vecN ELSE @,
                              !.i = @ + 1]]
             /\ last' = [set |-> TRUE, t |-> t, i |-> w.i,
                         chisq1 |-> w.chisq1, chisq2 |-> chisq2,
                         vec1 |-> w.vec1, vec2 |-> vec2, r |-> r]
             /\ stream' = Record(w.seed, rd, n, d)
    /\ UNCHANGED <<costFn, cov, nchains, nsteps, file, chains, orch>>

\* mcmc, line 318: chain.append2file after the loop, the only write.
WorkerFlush(t) ==
    /\ orch.pc \in {"waiting", "raised"}
    /\ tasks[t].pc = "loop"
    /\ tasks[t].i >= tasks[t].chain.nsteps
    /\ file' = append2file(file, tasks[t].chain, tasks[t].rows)
    /\ tasks' = [tasks EXCEPT ![t] = Ended(@, "done")]
    /\ UNCHANGED <<costFn, cov, nchains, nsteps, chains, orch, last, stream>>

\* An exception inside mcmc: the write of the log fails (line 318).
WorkerFail(t) ==
    /\ orch.pc \in {"waiting", "raised"}
    /\ tasks[t].pc = "loop"
    /\ tasks[t].i >= tasks[t].chain.nsteps
    /\ tasks' = [tasks EXCEPT ![t] = Ended(@, "failed")]
    /\ UNCHANGED <<costFn, cov, nchains, nsteps, file, chains, orch, last,
                   stream>>

\* ----------------------------------------------------------- orchestrator
\* pool.terminate(): every task not finished is killed.
TerminateNone(ts) == ts

Terminate(ts) ==
    [t \in DOMAIN ts |->
        IF ts[t].pc \in {"queued", "loop"} THEN Ended(ts[t], "killed")
        ELSE ts[t]]

\* Extractor_MCMC.__init__ in a new process: a new object with its own,
\* empty list of chains; the processes of the former object are gone.
NewExtractor(n) ==
    /\ orch.pc \in {"idle", "raised"}
    /\ orch.runs < MaxRuns
    /\ nsteps' = n
    /\ chains' = <<>>
    /\ tasks' = <<>>
    /\ orch' = [orch EXCEPT !.pc = "idle", !.outcome = "none",
                            !.complete = FALSE, !.interrupted = FALSE]
    /\ last' = NoStep
    /\ UNCHANGED <<costFn, cov, nchains, file, stream>>

\* run_mcmc, lines 321-329: the completeness check; when incomplete, one
\* more Chain per chain id appended to self.chains.chains, the pool, and the
\* whole list mapped onto it.
Dispatch ==
    LET cs == chains \o [i \in 1 .. nchains |-> Chain(file, i - 1, nsteps)]
    IN /\ chains' = cs
       /\ tasks' = [t \in 1 .. Len(cs) |-> QueuedTask(cs[t])]
       /\ orch' = [orch EXCEPT !.pc = "waiting", !.outcome = "none",
                               !.complete = FALSE, !.interrupted = FALSE]

RunStartAlways ==
    /\ orch.pc = "idle"
    /\ orch.runs < MaxRuns
    /\ Dispatch
    /\ last' = NoStep
    /\ UNCHANGED <<costFn, cov, nchains, nsteps, file, stream>>

RunStart ==
    /\ orch.pc = "idle"
    /\ orch.runs < MaxRuns
    /\ IF check_completness(file, nchains, nsteps)
       THEN /\ orch' = [orch EXCEPT !.pc = "merging", !.outcome = "none",
                                    !.complete = TRUE, !.interrupted = FALSE]
            /\ UNCHANGED <<chains, tasks>>
       ELSE Dispatch
    /\ last' = NoStep
    /\ UNCHANGED <<costFn, cov, nchains, nsteps, file, stream>>

\* run_mcmc, lines 329-333: get() returns once every task is done; close
\* and join.
OrchJoin ==
    /\ orch.pc = "waiting"
    /\ \A t \in TaskIds : tasks[t].pc = "done"
    /\ orch' = [orch EXCEPT !.pc = "merging"]
    /\ UNCHANGED <<costFn, cov, nchains, nsteps, file, chains, tasks, last,
                   stream>>

\* run_mcmc, line 329: get() re-raises the exception of a failed task; only
\* KeyboardInterrupt is caught, so run_mcmc raises and the pool is left as
\* it is.
OrchRaise ==
    /\ orch.pc = "waiting"
    /\ \E t \in TaskIds : tasks[t].pc = "failed"
    /\ orch' = [orch EXCEPT !.pc = "raised", !.outcome = "raised",
                            !.runs = @ + 1]
    /\ UNCHANGED <<costFn, cov, nchains, nsteps, file, chains, tasks, last,
                   stream>>

\* run_mcmc, lines 334-335: KeyboardInterrupt while waiting.
Interrupt ==
    /\ orch.pc = "waiting"
    /\ tasks' = Terminate(tasks)
    /\ orch' = [orch EXCEPT !.pc = "merging", !.interrupted = TRUE]
    /\ UNCHANGED <<costFn, cov, nchains, nsteps, file, chains, last, stream>>

\* run_mcmc, lines 336-348: the merge of the log and the return.
Merge ==
    /\ orch.pc = "merging"
    /\ orch' = [orch EXCEPT !.pc = "idle", !.outcome = "likelihood",
                            !.runs = @ + 1]
    /\ UNCHANGED <<costFn, cov, nchains, nsteps, file, chains, tasks, last,
                   stream>>

Next ==
    \/ \E t \in TaskIds : WorkerStart(t)
    \/ \E t \in TaskIds : WorkerStep(t)
    \/ \E t \in TaskIds : WorkerFlush(t)
    \/ \E t \in TaskIds : WorkerFail(t)
    \/ \E n \in 1 .. MaxSteps : NewExtractor(n)
    \/ RunStart
    \/ OrchJoin
    \/ OrchRaise
    \/ Interrupt
    \/ Merge

Spec == Init /\ [][Next]_vars

SpecWalk == InitWalk /\ [][Next]_vars

\* ================================================================ claims
\* The worker whose turn `last` records, while nothing has happened to it
\* since: it is still in the loop, one index further.
LastIsFresh ==
    /\ last.set
    /\ last.t \in TaskIds
    /\ tasks[last.t].pc = "loop"
    /\ tasks[last.t].i = last.i + 1

\* exp(-0.5 * (c2 - c)) > r / 1000 as the floating-point comparison decides
\* it: NaN compares False, exp of -inf or of less than about -745 is 0, exp
\* of a non-negative number is at least 1.
ExpRatioAbove(c, c2, r) ==
    /\ c # NaN /\ c2 # NaN
    /\ ~(c = PosInf /\ c2 = PosInf)
    /\ c2 # PosInf
    /\ \/ c = PosInf
       \/ c2 <= c
       \/ c2 - c < ExpUnderflow /\ r < ExpMilli(c2 - c)

BoundsInvariant ==
    /\ \A t \in TaskIds : tasks[t].pc = "loop" => prior(tasks[t].vec1) = 1
    /\ \A c \in ChainIds : \A j \in 1 .. Len(file[c]) :
           prior(file[c][j].vec) = 1
    /\ (LastIsFresh /\ prior(last.vec2) = 0)
       => tasks[last.t].vec1 # last.vec2

\* C3: the row count of a chain never decreases, and the write of a worker
\* that began on a log of k rows of its chain adds exactly the rows of the
\* indices k .. nsteps-1, in order (none when k >= nsteps).
RowMonotonicAppend ==
    [][/\ \A c \in ChainIds : Len(file'[c]) >= Len(file[c])
       /\ \A t \in TaskIds :
            (t \in DOMAIN tasks' /\ tasks[t].pc = "loop"
             /\ tasks'[t].pc = "done")
            => LET c == tasks[t].chain.nchain
                   k == tasks[t].logk
                   n == tasks[t].chain.nsteps
                   new == SubSeq(file'[c], Len(file[c]) + 1, Len(file'[c]))
               IN  /\ Len(new) = IF k <= n THEN n - k ELSE 0
                   /\ \A j \in 1 .. Len(new) : new[j].index = k + j - 1
      ]_vars

\* C4: a worker of a resumed chain enters its loop with the vector and the
\* cost of a row of its chain that carries the chain's start key.
ResumeKeepsState ==
    \A t \in TaskIds :
        (tasks[t].pc = "loop" /\ tasks[t].i = tasks[t].first
         /\ tasks[t].chain.start_key # -1)
        => \E j \in 1 .. Len(file[tasks[t].chain.nchain]) :
              LET row == file[tasks[t].chain.nchain][j] IN
              /\ row.key = tasks[t].chain.start_key
              /\ row.vec = tasks[t].vec1
              /\ row.chisq = tasks[t].chisq1

\* C5: while no call is under way or the call is at its merge, and the log
\* is complete for the configuration, a step that keeps the configuration
\* adds no chain, leaves no task to run, evaluates no candidate and leaves
\* the log as it is.
IdempotentRun ==
    [][(/\ orch.pc \in {"idle", "merging"}
        /\ check_completness(file, nchains, nsteps)
        /\ nsteps' = nsteps /\ nchains' = nchains)
       => /\ file' = file
          /\ Len(chains') <= Len(chains)
          /\ \A t \in DOMAIN tasks' : tasks'[t].pc \notin {"queued", "loop"}
          /\ ~last'.set \/ last' = last
          /\ orch'.pc \in {"idle", "merging"}
      ]_vars

\* The second call on the same object found the log complete and returned.
IdempotentRunWitness ==
    /\ orch.pc = "idle"
    /\ orch.runs = 2
    /\ orch.complete
    /\ orch.outcome = "likelihood"
    /\ Len(chains) = nchains
    /\ \A c \in 0 .. (nchains - 1) : Len(file[c]) = nsteps

\* C6: a worker killed by the interrupt after j turns of its loop has at
\* least j - 1 of their rows in the log.
AtMostOneStepLoss ==
    \A t \in TaskIds :
        tasks[t].pc = "killed"
        => Len(file[tasks[t].chain.nchain])
              >= tasks[t].logk + (tasks[t].i - tasks[t].first) - 1

\* C7: a call that was interrupted returns an outcome that says so.
InterruptedRunReported ==
    (orch.pc = "idle" /\ orch.interrupted /\ orch.outcome # "none")
    => orch.outcome = "incomplete"

\* C8: once a worker has failed and the call has ended, the caller holds a
\* report of the chains that succeeded and failed, and no worker is left.
WorkerFailureReported ==
    (orch.pc # "waiting" /\ \E t \in TaskIds : tasks[t].pc = "failed")
    => /\ orch.outcome = "failure_report"
       /\ \A t \in TaskIds : ~Live(t)

\* C9: the caller reads the log (the completeness check and the Chain
\* constructors at the start of a call, the merge at its end) only when no
\* task of the pool is queued or running, and a step that changes the rows
\* of a chain is the write of a worker of that chain and changes no other
\* chain's rows.
OrchReads ==
    \/ orch.pc = "idle" /\ orch'.pc \in {"waiting", "merging"}
    \/ orch.pc = "merging" /\ orch'.pc = "idle"

RECURSIVE WalkOf(_, _)
WalkOf(ch, k) ==
    LET rd == Reading(ch)
        draws == stream[ch.nchain][rd]
    IN
    IF k = 0
    THEN LET v0 == IF rd = "new"
                   THEN draw_vector(cov, ch.start_vec, draws[1].z)
                   ELSE ch.start_vec
         IN [vec1 |-> Rescale(v0), chisq1 |-> chisqOf(costFn, Rescale(v0)),
             rows |-> <<>>]
    ELSE LET before == WalkOf(ch, k - 1)
             d == draws[IF rd = "new" THEN k + 1 ELSE k]
             i == (IF rd = "new" THEN ch.start_index ELSE ch.start_index + 1)
                  + k - 1
             vec2 == draw_vector(cov, before.vec1, d.z)
             chisq2 == IF prior(vec2) > 0 THEN chisqOf(costFn, vec2)
                       ELSE BigChisq
             acc == ExpRatioAbove(before.chisq1, chisq2, d.r)
             vecN == IF acc THEN vec2 ELSE before.vec1
             chisqN == IF acc THEN chisq2 ELSE before.chisq1
         IN [vec1 |-> vecN, chisq1 |-> chisqN,
             rows |-> Append(before.rows,
                             [chain |-> ch.nchain, index |-> i,
                              key |-> i + ch.nchain * ch.nsteps,
                              chisq |-> chisqN, vec |-> vecN])]

LogRows == {x \in ChainIds \X (1 .. MaxSteps * (MaxRuns + 1)) :
               x[2] <= Len(file[x[1]])}

\* C12: when every row of the log was written under the configured nsteps
\* (its key is chain * nsteps + index and its index is below nsteps), no two
\* rows of the log carry the same key, and the keys of chain c lie in
\* [c * nsteps, (c + 1) * nsteps).
UniqueStepKey ==
    (\A x \in LogRows :
        LET row == file[x[1]][x[2]] IN
        /\ row.key = row.chain * nsteps + row.index
        /\ row.index < nsteps)
    => /\ \A x, y \in LogRows :
            x # y => file[x[1]][x[2]].key # file[y[1]][y[2]].key
       /\ \A x \in LogRows :
            LET row == file[x[1]][x[2]] IN
            /\ row.key >= x[1] * nsteps
            /\ row.key < (x[1] + 1) * nsteps

\* C13: after a turn whose candidate got a non-finite cost (NaN or +inf)
\* from the cost function, the worker is still in its loop (nothing was
\* raised), its current vector and cost are those before the turn, and the
\* row of the turn carries them.
NonFiniteCost ==
    (LastIsFresh /\ ~IsFiniteCost(last.chisq2))
    => LET w == tasks[last.t] IN
       /\ w.pc = "loop"
       /\ w.vec1 = last.vec1
       /\ w.chisq1 = last.chisq1
       /\ w.rows # <<>>
       /\ w.rows[Len(w.rows)].index = last.i
       /\ w.rows[Len(w.rows)].vec = last.vec1
       /\ w.rows[Len(w.rows)].chisq = last.chisq1

\* A feasible candidate of cost NaN, met from another vector of finite cost
\* on the lowest draw, and refused.
NonFiniteCostWitness ==
    /\ LastIsFresh
    /\ last.chisq2 = NaN
    /\ prior(last.vec2) = 1
    /\ IsFiniteCost(last.chisq1)
    /\ last.vec2 # last.vec1
    /\ last.r = 0
    /\ tasks[last.t].vec1 = last.vec1

\* C14: a worker in its loop holds one row per turn made; after a turn the
\* last row has the index of the turn and the worker's current vector and
\* cost, which are the candidate's when the test passed and the former ones
\* when it did not; and the row of a refused turn repeats the vector and
\* cost of the row before it: the worker's previous row or, at the first
\* turn of a resumed chain, the row of the log the chain resumed from.
RowPerStep ==
    /\ \A t \in TaskIds :
          tasks[t].pc = "loop"
          => Len(tasks[t].rows) = tasks[t].i - tasks[t].first
    /\ LastIsFresh
       => LET w == tasks[last.t]
              row == w.rows[Len(w.rows)]
              acc == ExpRatioAbove(last.chisq1, last.chisq2, last.r)
          IN /\ row.index = last.i
             /\ row.vec = w.vec1 /\ row.chisq = w.chisq1
             /\ acc => row.vec = last.vec2 /\ row.chisq = last.chisq2
             /\ ~acc => row.vec = last.vec1 /\ row.chisq = last.chisq1
             /\ (~acc /\ Len(w.rows) >= 2)
                => /\ row.vec = w.rows[Len(w.rows) - 1].vec
                   /\ row.chisq = w.rows[Len(w.rows) - 1].chisq
             /\ (~acc /\ Len(w.rows) = 1 /\ w.chain.start_key # -1)
                => \E j \in 1 .. Len(file[w.chain.nchain]) :
                      LET prev == file[w.chain.nchain][j] IN
                      /\ prev.key = w.chain.start_key
                      /\ prev.vec = row.vec
                      /\ prev.chisq = row.chisq

\* C15: a turn of a worker's loop at an index up to exploration_time leaves
\* the worker's proposal covariance as it is (no call of
\* update_proposal_cov); a turn at a later index makes exactly one call,
\* given the current vector as the turn leaves it, which is the vector of
\* the row the turn has recorded; and no other step of a worker that stays
\* in its loop touches the proposal.
CovarianceWindow ==
    [][\A t \in TaskIds :
         (t \in DOMAIN tasks' /\ tasks[t].pc = "loop"
          /\ tasks'[t].pc = "loop")
         => LET w == tasks[t]
                wN == tasks'[t]
            IN IF wN.i = w.i + 1
               THEN IF w.i <= ExplorationTime
                    THEN wN.ncov = w.ncov /\ wN.covvec = w.covvec
                    ELSE /\ wN.ncov = w.ncov + 1
                         /\ wN.covvec = wN.vec1
                         /\ Len(wN.rows) = Len(w.rows) + 1
                         /\ wN.rows[Len(wN.rows)].index = w.i
                         /\ wN.rows[Len(wN.rows)].vec = wN.covvec
               ELSE wN.ncov = w.ncov /\ wN.covvec = w.covvec
      ]_vars

\* A resumed chain's first turn, past the window: the candidate was taken
\* and the one update was given it.
CovarianceWindowWitness ==
    /\ LastIsFresh
    /\ tasks[last.t].chain.start_key # -1
    /\ last.i > ExplorationTime
    /\ last.vec2 # last.vec1
    /\ tasks[last.t].vec1 = last.vec2
    /\ tasks[last.t].ncov = 1
    /\ tasks[last.t].covvec = last.vec2

\* C10: a worker that began on a log holding more rows of its chain than
\* the configured nsteps does not end as done.
ResumeMismatchReported ==
    \A t \in TaskIds :
        tasks[t].logk > tasks[t].chain.nsteps => tasks[t].pc # "done"

====
